---- MODULE Spec2Model ----
(***************************************************************************)
(* Batch order resolution (collectIdsPaged and its helpers) of the         *)
(* order-search module, the variant that computes notFound globally.       *)
(*                                                                         *)
(* Strings are sequences of one-character strings, so that splitting,      *)
(* joining and number formatting are computed and not assumed.  Values of  *)
(* loosely typed JSON fields (id, order_number, total) are tagged records: *)
(* Num(n), Str(s), Undefined, Null.                                        *)
(***************************************************************************)
EXTENDS Integers, Sequences, FiniteSets

\* ------------------------------------------------------------------------
\* Bounds of the exploration
\* ------------------------------------------------------------------------

\* The upstream makes the batches of one run paginate beyond their first page
\* at most this many times in total.
MaxExtraPages == 2

\* Longest raw input, longest record list and longest id list to which the
\* helper functions are applied on their own.
MaxInputLen == 6

MaxRecords == 2

MaxIds == 3

\* Longest token sequence that is cut into batches on its own.
MaxTokens == 5

\* Most ids in an ids query parameter that is normalized on its own.
MaxParamIds == 3

\* Most calls of login explored in one life of the AuthProvider.
MaxLogins == 2

\* ------------------------------------------------------------------------
\* Program constants
\* ------------------------------------------------------------------------

\* Math.min(orderNumbers.length, 500): upstream hard cap of the page size.
PageCap == 500

\* ------------------------------------------------------------------------
\* JavaScript values and conversions
\* ------------------------------------------------------------------------

Num(n) == [t |-> "num", n |-> n, s |-> <<>>]
Str(s) == [t |-> "str", n |-> 0, s |-> s]
Undefined == [t |-> "undef", n |-> 0, s |-> <<>>]
Null == [t |-> "null", n |-> 0, s |-> <<>>]

Min(a, b) == IF a < b THEN a ELSE b

Digits == <<"0", "1", "2", "3", "4", "5", "6", "7", "8", "9">>

IsDigit(c) == \E d \in 1..10 : Digits[d] = c

DigitVal(c) == (CHOOSE d \in 1..10 : Digits[d] = c) - 1

\* \s of the regular expression and the characters String.prototype.trim strips
Whitespace == {" ", "\n", "\t"}

RECURSIVE Trim(_)
\* String.prototype.trim
Trim(s) ==
  IF s = <<>> THEN <<>>
  ELSE IF Head(s) \in Whitespace THEN Trim(Tail(s))
  ELSE IF s[Len(s)] \in Whitespace THEN Trim(SubSeq(s, 1, Len(s) - 1))
  ELSE s

\* slip: only the last digit written
DecimalStringLastDigit(n) ==
  IF n < 0 THEN <<"-", Digits[((-n) % 10) + 1]>> ELSE <<Digits[(n % 10) + 1]>>

RECURSIVE DecimalString(_)
\* String(n) of an integer
DecimalString(n) ==
  IF n < 0 THEN <<"-">> \o DecimalString(-n)
  ELSE IF n < 10 THEN <<Digits[n + 1]>>
  ELSE DecimalString(n \div 10) \o <<Digits[(n % 10) + 1]>>

RECURSIVE ParseDigits(_, _)
ParseDigits(s, acc) ==
  IF s = <<>> THEN acc ELSE ParseDigits(Tail(s), acc * 10 + DigitVal(Head(s)))

\* Number(v) followed by Number.isFinite: [finite, n].  A string converts
\* after trimming; the empty string and null convert to 0, undefined to NaN.
\* (Strings are unsigned decimal digit strings or not numeric at all here.)
ToNumber(v) ==
  CASE v.t = "num" -> [finite |-> TRUE, n |-> v.n]
    [] v.t = "null" -> [finite |-> TRUE, n |-> 0]
    [] v.t = "undef" -> [finite |-> FALSE, n |-> 0]
    [] v.t = "str" ->
         LET s == Trim(v.s) IN
         IF \A k \in 1..Len(s) : IsDigit(s[k])
         THEN [finite |-> TRUE, n |-> ParseDigits(s, 0)]
         ELSE [finite |-> FALSE, n |-> 0]

\* String(v)
StringOf(v) ==
  CASE v.t = "num" -> DecimalString(v.n)
    [] v.t = "str" -> v.s
    [] v.t = "null" -> <<"n", "u", "l", "l">>
    [] v.t = "undef" -> <<"u", "n", "d", "e", "f", "i", "n", "e", "d">>

RECURSIVE Join(_, _)
\* Array.prototype.join of an array of strings
Join(arr, sep) ==
  IF arr = <<>> THEN <<>>
  ELSE IF Len(arr) = 1 THEN arr[1]
  ELSE arr[1] \o sep \o Join(Tail(arr), sep)

\* ------------------------------------------------------------------------
\* dedupePreserveOrder, normalizeOrderNumbers
\* ------------------------------------------------------------------------

RECURSIVE dedupeLoopNoAdd(_, _, _)
\* slip: seen.add(item) left out, nothing is ever recognised as seen
dedupeLoopNoAdd(arr, seen, result) ==
  IF arr = <<>> THEN result
  ELSE LET item == Head(arr) IN
       IF item \in seen
       THEN dedupeLoopNoAdd(Tail(arr), seen, result)
       ELSE dedupeLoopNoAdd(Tail(arr), seen, Append(result, item))

RECURSIVE dedupeLoop(_, _, _)
dedupeLoop(arr, seen, result) ==
  IF arr = <<>> THEN result
  ELSE LET item == Head(arr) IN
       IF item \in seen
       THEN dedupeLoop(Tail(arr), seen, result)
       ELSE dedupeLoop(Tail(arr), seen \cup {item}, Append(result, item))

\* slip: result.unshift(item) for result.push(item), the order is reversed
dedupeReversed(arr) ==
  LET kept == dedupeLoop(arr, {}, <<>>)
  IN [k \in 1..Len(kept) |-> kept[Len(kept) + 1 - k]]

dedupePreserveOrder(arr) == dedupeLoop(arr, {}, <<>>)

\* slip: the split made on commas only
IsSeparatorCommaOnly(c) == c = ","

\* the character class [,\s]
IsSeparator(c) == c = "," \/ c \in Whitespace

RECURSIVE splitLoop(_, _, _, _)
\* input.split(/[,\s]+/): a run of separators ends the current piece once;
\* a leading or trailing run leaves an empty first or last piece.
splitLoop(rest, cur, inRun, pieces) ==
  IF rest = <<>> THEN Append(pieces, cur)
  ELSE IF IsSeparator(Head(rest))
       THEN IF inRun
            THEN splitLoop(Tail(rest), cur, TRUE, pieces)
            ELSE splitLoop(Tail(rest), <<>>, TRUE, Append(pieces, cur))
       ELSE splitLoop(Tail(rest), Append(cur, Head(rest)), FALSE, pieces)

SplitOnSeparators(input) == splitLoop(input, <<>>, FALSE, <<>>)

MapTrim(pieces) == [k \in 1..Len(pieces) |-> Trim(pieces[k])]

\* slip: .filter(Boolean) left out, empty pieces are taken for tokens
normalizeOrderNumbersNoFilter(input) ==
  IF Trim(input) = <<>> THEN <<>>
  ELSE dedupePreserveOrder(MapTrim(SplitOnSeparators(input)))

normalizeOrderNumbers(input) ==
  IF Trim(input) = <<>> THEN <<>>
  ELSE LET numbers == SelectSeq(MapTrim(SplitOnSeparators(input)),
                                LAMBDA s : s # <<>>)
       IN dedupePreserveOrder(numbers)

\* ------------------------------------------------------------------------
\* Inputs and upstream behaviour explored
\* ------------------------------------------------------------------------

\* Raw textarea inputs: "", " ,\n", "7", "8,7 9", " 007, 8,8\n"
RawInputs ==
  { <<>>,
    <<" ", ",", "\n">>,
    <<"7">>,
    <<"8", ",", "7", " ", "9">>,
    <<" ", "0", "0", "7", ",", " ", "8", ",", "8", "\n">> }

\* opts.batchSize and opts.concurrency
BatchSizes == {1, 2}

Concurrencies == {1, 2}

\* locations: [] of a record
EmptyArray == [t |-> "array", n |-> 0, s |-> <<>>]

\* Records the upstream can return: a numeric id echoing order number 7 as a
\* number, a string id without echo, a record without id and without
\* locations echoing "8".
ItemA == [id |-> Num(1), order_number |-> Num(7), locations |-> EmptyArray]

ItemB == [id |-> Str(<<"2">>), order_number |-> Undefined,
          locations |-> EmptyArray]

ItemC == [id |-> Undefined, order_number |-> Str(<<"8">>),
          locations |-> Undefined]

Items == {ItemA, ItemB, ItemC}

\* data.total of a page: absent, 2 or 3
TotalValues == {Undefined, Num(2), Num(3)}

\* HTTP statuses of a page response
Statuses == {200, 401, 500}

SeqsUpTo(S, n) == UNION {[1..k -> S] : k \in 0..n}

\* JSON bodies the upstream can answer to a request of the given page size
Bodies(size) == [list : SeqsUpTo(Items, size), total : TotalValues]

\* ------------------------------------------------------------------------
\* State
\* ------------------------------------------------------------------------

VARIABLES
  runPc,                 \* collectIdsPaged: "idle", "running", "returned", "rejected"
  rawInput,              \* argument rawInput
  batchSize,             \* opts.batchSize
  concurrency,           \* opts.concurrency
  orderNumbers,          \* normalized tokens
  batches,               \* the batches, in order
  i,                     \* loop variable of the window loop (0-based offset)
  allIds,                \* run-level accumulator of ids
  allFoundOrderNumbers,  \* run-level accumulator of echoed order numbers
  chunkResults,          \* values collected by Promise.all for the current window
  task,                  \* per batch: the searchBatchWithPagination call
  result,                \* <<>> or <<the returned SearchResult>>
  runError,              \* <<>> or <<the error collectIdsPaged rejected with>>
  completionOrder,       \* batches in the order their calls returned or threw
  localStorage,          \* AuthProvider: the items stored, by key
  isAuthenticated,       \* AuthProvider: the state isAuthenticated
  logins,                \* AuthProvider: the calls of login, in call order
  lastFinished           \* AuthProvider: "none" before the mount effect, then
                         \* the operation that finished last

vars == <<runPc, rawInput, batchSize, concurrency, orderNumbers, batches, i,
          allIds, allFoundOrderNumbers, chunkResults, task, result, runError,
          completionOrder, localStorage, isAuthenticated, logins,
          lastFinished>>

searchVars == <<runPc, rawInput, batchSize, concurrency, orderNumbers,
                batches, i, allIds, allFoundOrderNumbers, chunkResults, task,
                result, runError, completionOrder>>

authVars == <<localStorage, isAuthenticated, logins, lastFinished>>

runVars == <<runPc, i, allIds, allFoundOrderNumbers, chunkResults, result,
             runError>>

inputVars == <<rawInput, batchSize, concurrency, orderNumbers, batches>>

\* ------------------------------------------------------------------------
\* searchBatchWithPagination
\* ------------------------------------------------------------------------

UNAUTHORIZED_401 == [name |-> "UNAUTHORIZED_401", status |-> 401]

\* slip: the status left out of the error
SEARCH_FAILED_NoStatus(status) == [name |-> "SEARCH_FAILED", status |-> 0]

SEARCH_FAILED(status) == [name |-> "SEARCH_FAILED", status |-> status]

\* the rejection of fetch / response.json() when controller.abort() has run
AbortError == [name |-> "AbortError", status |-> 0]

NoError == [name |-> "", status |-> 0]

\* slip: the page index left out, page 0 is requested again
RequestSamePage(orderNums, page) ==
  [size |-> Min(Len(orderNums), PageCap),
   page |-> 0,
   search |-> Join(orderNums, <<",">>)]

\* slip: page indices counted from 1
RequestFromPageOne(orderNums, page) ==
  [size |-> Min(Len(orderNums), PageCap),
   page |-> page + 1,
   search |-> Join(orderNums, <<",">>)]

\* new URLSearchParams({size, page, search, ...})
Request(orderNums, page) ==
  [size |-> Min(Len(orderNums), PageCap),
   page |-> page,
   search |-> Join(orderNums, <<",">>)]

\* slip: the timer is not armed
StartTaskNoTimer(orderNums) ==
  [pc |-> "fetch", page |-> 0, allItems |-> <<>>, totalCollected |-> 0,
   apiTotal |-> Undefined, timer |-> FALSE, aborted |-> FALSE, status |-> 0,
   err |-> NoError, reqs |-> <<Request(orderNums, 0)>>]

\* the call up to its first await: locals initialised, timer armed, page 0
\* requested (status: response.status of the last response, 0 before any)
StartTask(orderNums) ==
  [pc |-> "fetch", page |-> 0, allItems |-> <<>>, totalCollected |-> 0,
   apiTotal |-> Undefined, timer |-> TRUE, aborted |-> FALSE, status |-> 0,
   err |-> NoError, reqs |-> <<Request(orderNums, 0)>>]

IdleTask ==
  [pc |-> "idle", page |-> 0, allItems |-> <<>>, totalCollected |-> 0,
   apiTotal |-> Undefined, timer |-> FALSE, aborted |-> FALSE, status |-> 0,
   err |-> NoError, reqs |-> <<>>]

\* slip: the !response.ok test placed before the 401 test
StatusErrorOkFirst(status) ==
  IF status < 200 \/ status > 299 THEN SEARCH_FAILED(status) ELSE NoError

\* if (response.status === 401) ... if (!response.ok) ...
StatusError(status) ==
  IF status = 401 THEN UNAUTHORIZED_401
  ELSE IF status < 200 \/ status > 299 THEN SEARCH_FAILED(status)
  ELSE NoError

\* slip: a full page taken for the last one (<= for <)
StopsPagingFullPage(listLen, apiTotal, totalCollected, size) ==
  \/ listLen = 0
  \/ apiTotal # Undefined /\ totalCollected >= apiTotal.n
  \/ listLen <= size

\* the three break conditions after a page has been appended
StopsPaging(listLen, apiTotal, totalCollected, size) ==
  \/ listLen = 0
  \/ apiTotal # Undefined /\ totalCollected >= apiTotal.n
  \/ listLen < size

\* ------------------------------------------------------------------------
\* processBatchResults and the chunk promise of collectIdsPaged
\* ------------------------------------------------------------------------

\* items.map(item => Number(item.id)).filter(n => Number.isFinite(n))
processBatchResults(items) ==
  LET mapped == [k \in 1..Len(items) |-> ToNumber(items[k].id)]
      kept == SelectSeq(mapped, LAMBDA x : x.finite)
  IN [ids |-> [k \in 1..Len(kept) |-> kept[k].n]]

\* slip: String(...) left out, a numeric order_number matches no token
foundNumbersOfStringsOnly(items) ==
  LET echoing == SelectSeq(items, LAMBDA it : it.order_number.t = "str")
  IN [k \in 1..Len(echoing) |-> echoing[k].order_number.s]

\* items.filter(item => item.order_number !== undefined).map(String(...))
foundNumbersOf(items) ==
  LET echoing == SelectSeq(items, LAMBDA it : it.order_number # Undefined)
  IN [k \in 1..Len(echoing) |-> StringOf(echoing[k].order_number)]

PendingSlot == [ready |-> FALSE, ids |-> <<>>, foundNumbers |-> <<>>]

\* slip: found order numbers restricted to the tokens of the batch itself
ChunkValueRequestedOnly(items, requestedSet) ==
  [ready |-> TRUE, ids |-> processBatchResults(items).ids,
   foundNumbers |-> SelectSeq(foundNumbersOf(items),
                              LAMBDA num : num \in requestedSet)]

\* new Set(orderNumbers.map(n => String(n)))
RequestedSet(orderNums) == {orderNums[k] : k \in 1..Len(orderNums)}

\* value the chunk promise of a batch fulfils with: requestedSet is passed on
\* but not used, the found order numbers are not restricted to the batch
ChunkValue(items, requestedSet) ==
  [ready |-> TRUE, ids |-> processBatchResults(items).ids,
   foundNumbers |-> foundNumbersOf(items)]

\* ------------------------------------------------------------------------
\* collectIdsPaged
\* ------------------------------------------------------------------------

RECURSIVE MakeBatchesFullOnly(_, _)
\* slip: i + batchSize <= n as loop test, the last, shorter batch is lost
MakeBatchesFullOnly(nums, bs) ==
  IF Len(nums) < bs THEN <<>>
  ELSE <<SubSeq(nums, 1, bs)>>
       \o MakeBatchesFullOnly(SubSeq(nums, bs + 1, Len(nums)), bs)

RECURSIVE MakeBatches(_, _)
\* for (i = 0; i < n; i += batchSize) batches.push(slice(i, i + batchSize))
MakeBatches(nums, bs) ==
  IF nums = <<>> THEN <<>>
  ELSE <<SubSeq(nums, 1, Min(bs, Len(nums)))>>
       \o MakeBatches(SubSeq(nums, Min(bs, Len(nums)) + 1, Len(nums)), bs)

\* slip: the slice takes one batch more than the loop steps over
WindowOfOneMore(from, conc, n) == (from + 1)..Min(from + conc + 1, n)

\* batches.slice(i, i + concurrency), as the 1-based batch indices
WindowOf(from, conc, n) == (from + 1)..Min(from + conc, n)

\* slip: each value pushed when its promise fulfils, in arrival order
ResultSlotArrival(b, from, cr) ==
  1 + Cardinality({k \in 1..Len(cr) : cr[k].ready})

\* Promise.all keeps each value at the position of its promise
ResultSlot(b, from, cr) == b - from

\* slip: Promise.any / Promise.race, the window ends with its first batch
PromiseAnyFulfilled(cr) == \E k \in 1..Len(cr) : cr[k].ready

\* Promise.all fulfils when every promise has fulfilled
PromiseAllFulfilled(cr) == \A k \in 1..Len(cr) : cr[k].ready

RECURSIVE ConcatIds(_)
ConcatIds(cr) == IF cr = <<>> THEN <<>> ELSE Head(cr).ids \o ConcatIds(Tail(cr))

RECURSIVE ConcatFound(_)
ConcatFound(cr) ==
  IF cr = <<>> THEN <<>> ELSE Head(cr).foundNumbers \o ConcatFound(Tail(cr))

\* slip: the ids joined with a raw comma
EncodeIdsRawComma(ids) ==
  Join([k \in 1..Len(ids) |-> DecimalString(ids[k])], <<",">>)

\* uniqueIds.map(String).join("%2C")
EncodeIds(ids) ==
  Join([k \in 1..Len(ids) |-> DecimalString(ids[k])], <<"%", "2", "C">>)

\* slip: the negation of allFoundSet.has(num) lost
FinalResultKeepsFound(nums, ids, found) ==
  LET uniqueIds == dedupePreserveOrder(ids)
      allFoundSet == {found[k] : k \in 1..Len(found)}
  IN [ids |-> uniqueIds,
      idsEncoded |-> EncodeIds(uniqueIds),
      notFound |-> SelectSeq(nums, LAMBDA num : num \in allFoundSet)]

\* steps 4 to 6 and the return value
FinalResult(nums, ids, found) ==
  LET uniqueIds == dedupePreserveOrder(ids)
      allFoundSet == {found[k] : k \in 1..Len(found)}
  IN [ids |-> uniqueIds,
      idsEncoded |-> EncodeIds(uniqueIds),
      notFound |-> SelectSeq(nums, LAMBDA num : num \notin allFoundSet)]

\* ------------------------------------------------------------------------
\* collectIdsPaged of src/client/lib/orderSearch.ts: the records are
\* filtered and notFound is computed batch by batch
\* ------------------------------------------------------------------------

\* slip: requestedSet.has(item.order_number), String(...) left out
filteredItemsNoString(items, requestedSet) ==
  SelectSeq(items, LAMBDA it :
    /\ it.locations.t = "array"
    /\ it.order_number # Undefined
    /\ it.order_number.t = "str"
    /\ it.order_number.s \in requestedSet)

\* items.filter: locations is an array, order_number is defined and is one
\* of the requested numbers
filteredItems(items, requestedSet) ==
  SelectSeq(items, LAMBDA it :
    /\ it.locations.t = "array"
    /\ it.order_number # Undefined
    /\ StringOf(it.order_number) \in requestedSet)

\* processBatchResults of orderSearch.ts; Array.from(requestedSet) lists the
\* requested numbers in the order of the batch
processBatchResultsFiltered(items, batch) ==
  LET requestedSet == RequestedSet(batch)
      filtered == filteredItems(items, requestedSet)
      foundNumbers ==
        {StringOf(filtered[k].order_number) : k \in 1..Len(filtered)}
  IN [ids |-> processBatchResults(filtered).ids,
      notFoundForBatch |->
        SelectSeq(dedupePreserveOrder(batch),
                  LAMBDA num : num \notin foundNumbers)]

RECURSIVE ConcatNotFound(_)
ConcatNotFound(cr) ==
  IF cr = <<>> THEN <<>>
  ELSE Head(cr).notFoundForBatch \o ConcatNotFound(Tail(cr))

\* what collectIdsPaged of orderSearch.ts returns for the batches bs when
\* the call of batch b returns the records itemsOf[b]
collectIdsPagedFiltered(bs, itemsOf) ==
  LET results == [b \in 1..Len(bs) |->
                    processBatchResultsFiltered(itemsOf[b], bs[b])]
      uniqueIds == dedupePreserveOrder(ConcatIds(results))
  IN [ids |-> uniqueIds,
      idsEncoded |-> EncodeIds(uniqueIds),
      notFound |-> dedupePreserveOrder(ConcatNotFound(results))]

Init ==
  /\ runPc = "idle"
  /\ rawInput = <<>>
  /\ batchSize = 0
  /\ concurrency = 0
  /\ orderNumbers = <<>>
  /\ batches = <<>>
  /\ i = 0
  /\ allIds = <<>>
  /\ allFoundOrderNumbers = <<>>
  /\ chunkResults = <<>>
  /\ task = <<>>
  /\ result = <<>>
  /\ runError = <<>>
  /\ completionOrder = <<>>
  /\ localStorage = <<>>
  /\ isAuthenticated = FALSE
  /\ logins = <<>>
  /\ lastFinished = "none"

\* One call collectIdsPaged(raw, token, {batchSize: bs, concurrency: conc}),
\* up to its first await (the first window dispatched) or its early return.
CollectIdsPaged(raw, bs, conc) ==
  /\ runPc = "idle"
  /\ rawInput' = raw
  /\ batchSize' = bs
  /\ concurrency' = conc
  /\ LET nums == normalizeOrderNumbers(raw)
         bts == MakeBatches(nums, bs)
     IN /\ orderNumbers' = nums
        /\ IF Len(nums) = 0
           THEN /\ runPc' = "returned"
                /\ result' = <<[ids |-> <<>>, idsEncoded |-> <<>>,
                                notFound |-> <<>>]>>
                /\ UNCHANGED <<batches, task, chunkResults>>
           ELSE /\ runPc' = "running"
                /\ batches' = bts
                /\ task' = [b \in 1..Len(bts) |->
                              IF b \in WindowOf(0, conc, Len(bts))
                              THEN StartTask(bts[b]) ELSE IdleTask]
                /\ chunkResults' =
                     [k \in 1..Cardinality(WindowOf(0, conc, Len(bts))) |->
                        PendingSlot]
                /\ UNCHANGED result
  /\ UNCHANGED <<i, allIds, allFoundOrderNumbers, runError, completionOrder>>
  /\ UNCHANGED authVars

\* The call of batch b throws err (finally: clearTimeout; its locals are
\* gone).  Its chunk promise rejects; Promise.all of the window rejects with
\* the first rejection, and with it collectIdsPaged.
BatchThrows(b, status, err) ==
  /\ task' = [task EXCEPT ![b] =
                  [IdleTask EXCEPT !.pc = "failed", !.err = err,
                                   !.aborted = (err.name = "AbortError"),
                                   !.status = status,
                                   !.reqs = task[b].reqs]]
  /\ completionOrder' = Append(completionOrder, b)
  /\ IF runPc = "running" /\ b \in WindowOf(i, concurrency, Len(batches))
     THEN /\ runPc' = "rejected"
          /\ runError' = <<err>>
          /\ UNCHANGED <<i, allIds, allFoundOrderNumbers, chunkResults, result>>
     ELSE UNCHANGED runVars
  /\ UNCHANGED inputVars
  /\ UNCHANGED authVars

\* The call of batch b returns done.allItems (its other locals are gone, its
\* timer is cleared).  Its chunk promise fulfils; when it is
\* the last of the window, the results of the window are accumulated and the
\* loop either dispatches the next window or the function returns.
BatchReturns(b, done) ==
  /\ completionOrder' = Append(completionOrder, b)
  /\ UNCHANGED inputVars
  /\ UNCHANGED authVars
  /\ IF runPc = "running" /\ b \in WindowOf(i, concurrency, Len(batches))
     THEN LET cr == [chunkResults EXCEPT
                       ![ResultSlot(b, i, chunkResults)] =
                          ChunkValue(done.allItems,
                                     RequestedSet(batches[b]))]
          IN IF PromiseAllFulfilled(cr)
             THEN LET ids2 == allIds \o ConcatIds(cr)
                      found2 == allFoundOrderNumbers \o ConcatFound(cr)
                      i2 == i + concurrency
                      next == WindowOf(i2, concurrency, Len(batches))
                  IN /\ allIds' = ids2
                     /\ allFoundOrderNumbers' = found2
                     /\ i' = i2
                     /\ UNCHANGED runError
                     /\ IF i2 < Len(batches)
                        THEN /\ task' = [c \in DOMAIN task |->
                                          IF c \in next THEN StartTask(batches[c])
                                          ELSE IF c = b THEN done
                                          ELSE task[c]]
                             /\ chunkResults' =
                                  [k \in 1..Cardinality(next) |-> PendingSlot]
                             /\ UNCHANGED <<runPc, result>>
                        ELSE /\ task' = [task EXCEPT ![b] = done]
                             /\ chunkResults' = cr
                             /\ runPc' = "returned"
                             /\ result' = <<FinalResult(orderNumbers, ids2,
                                                        found2)>>
             ELSE /\ task' = [task EXCEPT ![b] = done]
                  /\ chunkResults' = cr
                  /\ UNCHANGED <<runPc, i, allIds, allFoundOrderNumbers,
                                 result, runError>>
     ELSE /\ task' = [task EXCEPT ![b] = done]
          /\ UNCHANGED runVars

RECURSIVE SumOver(_, _)
SumOver(f, S) ==
  IF S = {} THEN 0
  ELSE LET x == CHOOSE y \in S : TRUE IN f[x] + SumOver(f, S \ {x})

\* page requests beyond page 0 issued so far in the run
ExtraPages ==
  SumOver([b \in DOMAIN task |->
             IF task[b].reqs = <<>> THEN 0 ELSE Len(task[b].reqs) - 1],
          DOMAIN task)

\* await fetch(...) of batch b resolves with a response of the given status
FetchResponse(b, status) ==
  /\ b \in DOMAIN task
  /\ task[b].pc = "fetch"
  /\ IF StatusError(status) # NoError
     THEN BatchThrows(b, status, StatusError(status))
     ELSE /\ task' = [task EXCEPT ![b].pc = "json", ![b].status = status]
          /\ UNCHANGED <<runVars, inputVars, completionOrder, authVars>>

\* await response.json() of batch b resolves with body: the page is appended
\* and the loop either breaks (finally: clearTimeout, return) or requests the
\* next page.
JsonBody(b, body) ==
  /\ b \in DOMAIN task
  /\ task[b].pc = "json"
  /\ LET t == task[b]
         size == Min(Len(batches[b]), PageCap)
         list == body.list
         apiTotal2 == IF t.apiTotal = Undefined /\ body.total # Undefined
                      THEN body.total ELSE t.apiTotal
         allItems2 == t.allItems \o list
         collected2 == t.totalCollected + Len(list)
         stop == StopsPaging(Len(list), apiTotal2, collected2, size)
     IN /\ stop \/ ExtraPages < MaxExtraPages
        /\ IF stop
           THEN BatchReturns(b, [IdleTask EXCEPT !.pc = "done",
                                                 !.allItems = allItems2,
                                                 !.status = t.status,
                                                 !.reqs = t.reqs])
           ELSE /\ task' = [task EXCEPT ![b] =
                              [t EXCEPT !.pc = "fetch", !.page = t.page + 1,
                                        !.allItems = allItems2,
                                        !.totalCollected = collected2,
                                        !.apiTotal = apiTotal2,
                                        !.reqs = Append(t.reqs,
                                           Request(batches[b], t.page + 1))]]
                /\ UNCHANGED <<runVars, inputVars, completionOrder, authVars>>

\* The 30 s timer of batch b fires while its call is pending:
\* controller.abort() rejects the pending fetch or body read with AbortError.
Timeout(b) ==
  /\ b \in DOMAIN task
  /\ task[b].timer
  /\ task[b].pc \in {"fetch", "json"}
  /\ BatchThrows(b, task[b].status, AbortError)

Next ==
  \/ \E raw \in RawInputs, bs \in BatchSizes, conc \in Concurrencies :
       CollectIdsPaged(raw, bs, conc)
  \/ \E b \in DOMAIN task, status \in Statuses : FetchResponse(b, status)
  \/ \E b \in DOMAIN task :
       \E body \in Bodies(Min(Len(batches[b]), PageCap)) : JsonBody(b, body)
  \/ \E b \in DOMAIN task : Timeout(b)

Spec == Init /\ [][Next]_vars

\* ------------------------------------------------------------------------
\* searchAndExtractIdsOnce: one batch, one call of searchBatchWithPagination
\* ------------------------------------------------------------------------

\* raw inputs of at most two tokens
OnceInputs == {raw \in RawInputs : Len(normalizeOrderNumbers(raw)) <= 2}

\* collectIdsPaged(rawInput, token, {batchSize: 500, concurrency: 1})
SearchAndExtractIdsOnce(raw) == CollectIdsPaged(raw, 500, 1)

OnceNext ==
  \/ \E raw \in OnceInputs : SearchAndExtractIdsOnce(raw)
  \/ \E b \in DOMAIN task, status \in Statuses : FetchResponse(b, status)
  \/ \E b \in DOMAIN task :
       \E body \in Bodies(Min(Len(batches[b]), PageCap)) : JsonBody(b, body)
  \/ \E b \in DOMAIN task : Timeout(b)

OnceSpec == Init /\ [][OnceNext]_vars

\* ------------------------------------------------------------------------
\* normalizeIdsParam of the PDF proxy route
\* ------------------------------------------------------------------------

RECURSIVE decodeLoop(_, _)
\* decodeURIComponent, left to right: %2C (in either case) is a comma, %25
\* a percent sign, a percent sign without two hexadecimal digits throws.
\* (No other escape occurs in the parameters explored; it is taken as
\* malformed.)
decodeLoop(rest, out) ==
  IF rest = <<>> THEN [ok |-> TRUE, s |-> out]
  ELSE IF Head(rest) # "%"
       THEN decodeLoop(Tail(rest), Append(out, Head(rest)))
  ELSE IF Len(rest) >= 3 /\ SubSeq(rest, 2, 3) \in {<<"2", "C">>, <<"2", "c">>}
       THEN decodeLoop(SubSeq(rest, 4, Len(rest)), Append(out, ","))
  ELSE IF Len(rest) >= 3 /\ SubSeq(rest, 2, 3) = <<"2", "5">>
       THEN decodeLoop(SubSeq(rest, 4, Len(rest)), Append(out, "%"))
  ELSE [ok |-> FALSE, s |-> <<>>]

decodeURIComponent(raw) == decodeLoop(raw, <<>>)

\* /%2C/i.test(s)
HasEncodedComma(s) ==
  \E k \in 1..(Len(s) - 2) :
    SubSeq(s, k, k + 2) \in {<<"%", "2", "C">>, <<"%", "2", "c">>}

\* /,/.test(s)
HasRawComma(s) == \E k \in 1..Len(s) : s[k] = ","

RECURSIVE ReplaceCommas(_)
\* s.replace(/,/g, "%2C")
ReplaceCommas(s) ==
  IF s = <<>> THEN <<>>
  ELSE (IF Head(s) = "," THEN <<"%", "2", "C">> ELSE <<Head(s)>>)
       \o ReplaceCommas(Tail(s))

normalizeIdsParam(raw) ==
  IF raw = <<>> THEN <<>>
  ELSE LET once == decodeURIComponent(raw) IN
       IF once.ok /\ HasEncodedComma(once.s) THEN once.s
       ELSE IF once.ok /\ HasRawComma(once.s) THEN ReplaceCommas(once.s)
       ELSE IF HasEncodedComma(raw) THEN raw
       ELSE ReplaceCommas(raw)

\* ------------------------------------------------------------------------
\* The steps of collectIdsPaged on their own: normalizeOrderNumbers on a raw
\* input, the chunk callback (processBatchResults) on the records a batch
\* call returned, steps 4 to 6 on the accumulated ids, and the
\* building of the batches.  runPc names the step that is pending
\* ("normalize", "process", "reconcile", "batch") or done ("normalized",
\* "renormalized", "processed", "returned", "batched").
\* ------------------------------------------------------------------------

\* characters of raw inputs: two digits and the separators
Alphabet == {"0", "7", ",", " ", "\n"}

RawStrings == SeqsUpTo(Alphabet, MaxInputLen)

\* separators with which a caller joins tokens again
Separators == {<<",">>, <<" ">>, <<"\n">>, <<",", " ">>}

\* id fields of upstream records: numbers, numeric strings (one padded with
\* spaces), a non-numeric string, the empty string, null, no id
IdFields ==
  {Num(5), Str(<<"1", "2">>), Str(<<" ", "3", " ">>), Str(<<"x">>),
   Str(<<>>), Null, Undefined}

\* order_number fields: none, a requested token, a token not requested
EchoFields == {Undefined, Str(<<"7">>), Str(<<"9">>)}

Records == [id : IdFields, order_number : EchoFields]

RecordLists == SeqsUpTo(Records, MaxRecords)

\* accumulated ids, duplicates included
IdValues == {0, 7, 12, 305, -4}

IdLists == SeqsUpTo(IdValues, MaxIds)

\* tokens of the sequences that are cut into batches
TokenNames == {<<"a">>, <<"b">>, <<"c">>, <<"d">>, <<"e">>, <<"f">>}

\* normalized token sequences: not empty, no token twice
TokenLists ==
  {nums \in SeqsUpTo(TokenNames, MaxTokens) :
     /\ nums # <<>>
     /\ \A p, q \in 1..Len(nums) : p # q => nums[p] # nums[q]}

\* opts.batchSize of the runs whose batches are built: small sizes and the
\* default
StepBatchSizes == {1, 2, 3, 450}

\* the ids of the parameters explored, in order
ParamIds == << <<"1", "2">>, <<"5">>, <<"3", "0", "5">>, <<"7">> >>

\* the ways a comma between two ids reaches the route: raw, encoded once,
\* encoded twice
ParamSeparators ==
  {<<",">>, <<"%", "2", "C">>, <<"%", "2", "5", "2", "C">>}

RECURSIVE Interleave(_, _)
\* ids[1] seps[1] ids[2] ... seps[n-1] ids[n]
Interleave(ids, seps) ==
  IF ids = <<>> THEN <<>>
  ELSE IF Len(ids) = 1 THEN ids[1]
  ELSE ids[1] \o seps[1] \o Interleave(Tail(ids), Tail(seps))

\* req.query.ids: no id, or the first n ids with any mix of separators
IdsParams ==
  {<<>>} \cup
  UNION {{Interleave(SubSeq(ParamIds, 1, n), seps) :
            seps \in [1..(n - 1) -> ParamSeparators]} : n \in 1..MaxParamIds}

\* the call of the only batch <<"7">> has returned items after one page
ReturnedTask(items) ==
  [IdleTask EXCEPT !.pc = "done", !.allItems = items, !.status = 200,
                   !.reqs = <<Request(<<<<"7">>>>, 0)>>]

\* Either collectIdsPaged is about to normalize a raw input, or, in a run
\* for the input "7" with batchSize 500 and concurrency 1, the call of the
\* only batch has just returned a record list, or the only window has just
\* been accumulated (records without echo brought the ids), or
\* collectIdsPaged has normalized its input to a token sequence and is about
\* to build the batches.
StepInit ==
  /\ localStorage = <<>>
  /\ isAuthenticated = FALSE
  /\ logins = <<>>
  /\ lastFinished = "none"
  /\ allFoundOrderNumbers = <<>>
  /\ result = <<>>
  /\ runError = <<>>
  /\ \/ /\ runPc = "normalize"
        /\ rawInput \in RawStrings
        /\ batchSize = 0
        /\ concurrency = 0
        /\ orderNumbers = <<>>
        /\ batches = <<>>
        /\ i = 0
        /\ task = <<>>
        /\ chunkResults = <<>>
        /\ allIds = <<>>
        /\ completionOrder = <<>>
     \/ /\ runPc = "process"
        /\ rawInput = <<"7">>
        /\ batchSize = 500
        /\ concurrency = 1
        /\ orderNumbers = <<<<"7">>>>
        /\ batches = <<orderNumbers>>
        /\ i = 0
        /\ task \in {<<ReturnedTask(items)>> : items \in RecordLists}
        /\ chunkResults = <<PendingSlot>>
        /\ allIds = <<>>
        /\ completionOrder = <<1>>
     \/ /\ runPc = "reconcile"
        /\ rawInput = <<"7">>
        /\ batchSize = 500
        /\ concurrency = 1
        /\ orderNumbers = <<<<"7">>>>
        /\ batches = <<orderNumbers>>
        /\ i = 1
        /\ allIds \in IdLists
        /\ task = <<ReturnedTask([k \in 1..Len(allIds) |->
                                   [id |-> Num(allIds[k]),
                                    order_number |-> Undefined]])>>
        /\ chunkResults = <<[ready |-> TRUE, ids |-> allIds,
                             foundNumbers |-> <<>>]>>
        /\ completionOrder = <<1>>
     \/ /\ runPc = "idsParam"
        /\ rawInput \in IdsParams
        /\ batchSize = 0
        /\ concurrency = 0
        /\ orderNumbers = <<>>
        /\ batches = <<>>
        /\ i = 0
        /\ task = <<>>
        /\ chunkResults = <<>>
        /\ allIds = <<>>
        /\ completionOrder = <<>>
     \/ /\ runPc = "batch"
        /\ orderNumbers \in TokenLists
        /\ rawInput = Join(orderNumbers, <<",">>)
        /\ batchSize \in StepBatchSizes
        /\ concurrency = 1
        /\ batches = <<>>
        /\ i = 0
        /\ task = <<>>
        /\ chunkResults = <<>>
        /\ allIds = <<>>
        /\ completionOrder = <<>>

\* const orderNumbers = normalizeOrderNumbers(rawInput)
CallNormalize ==
  /\ runPc = "normalize"
  /\ runPc' = "normalized"
  /\ orderNumbers' = normalizeOrderNumbers(rawInput)
  /\ UNCHANGED authVars
  /\ UNCHANGED <<rawInput, batchSize, concurrency, batches, i, allIds,
                 allFoundOrderNumbers, chunkResults, task, result, runError,
                 completionOrder>>

\* the caller joins the tokens with sep and has them normalized again
CallNormalizeAgain(sep) ==
  /\ runPc = "normalized"
  /\ runPc' = "renormalized"
  /\ rawInput' = Join(orderNumbers, sep)
  /\ orderNumbers' = normalizeOrderNumbers(Join(orderNumbers, sep))
  /\ UNCHANGED authVars
  /\ UNCHANGED <<batchSize, concurrency, batches, i, allIds,
                 allFoundOrderNumbers, chunkResults, task, result, runError,
                 completionOrder>>

\* .then(({items, requestedSet}) => ...) of the chunk promise
CallProcessBatchResults ==
  /\ runPc = "process"
  /\ runPc' = "processed"
  /\ chunkResults' = <<ChunkValue(task[1].allItems, RequestedSet(batches[1]))>>
  /\ UNCHANGED authVars
  /\ UNCHANGED <<rawInput, batchSize, concurrency, orderNumbers, batches, i,
                 allIds, allFoundOrderNumbers, task, result, runError,
                 completionOrder>>

\* step 2: the batches are built
CallMakeBatches ==
  /\ runPc = "batch"
  /\ runPc' = "batched"
  /\ batches' = MakeBatches(orderNumbers, batchSize)
  /\ UNCHANGED authVars
  /\ UNCHANGED <<rawInput, batchSize, concurrency, orderNumbers, i, allIds,
                 allFoundOrderNumbers, chunkResults, task, result, runError,
                 completionOrder>>

\* handlePdfProxy: const ids = normalizeIdsParam(rawIds); rawInput is the
\* raw parameter, result holds the normalized one
CallNormalizeIdsParam ==
  /\ runPc = "idsParam"
  /\ runPc' = "idsNormalized"
  /\ result' = <<normalizeIdsParam(rawInput)>>
  /\ UNCHANGED authVars
  /\ UNCHANGED <<rawInput, batchSize, concurrency, orderNumbers, batches, i,
                 allIds, allFoundOrderNumbers, chunkResults, task, runError,
                 completionOrder>>

\* steps 4 to 6 on the accumulators, and the return
CallReconcile ==
  /\ runPc = "reconcile"
  /\ runPc' = "returned"
  /\ result' = <<FinalResult(orderNumbers, allIds, allFoundOrderNumbers)>>
  /\ UNCHANGED authVars
  /\ UNCHANGED <<rawInput, batchSize, concurrency, orderNumbers, batches, i,
                 allIds, allFoundOrderNumbers, chunkResults, task, runError,
                 completionOrder>>

StepNext ==
  \/ CallNormalize
  \/ \E sep \in Separators : CallNormalizeAgain(sep)
  \/ CallProcessBatchResults
  \/ CallReconcile
  \/ CallMakeBatches
  \/ CallNormalizeIdsParam

StepSpec == StepInit /\ [][StepNext]_vars

\* ------------------------------------------------------------------------
\* Properties
\* ------------------------------------------------------------------------

\* batches whose searchBatchWithPagination call has started and has neither
\* returned nor thrown
InFlight == {b \in DOMAIN task : task[b].pc \in {"fetch", "json"}}

FailedBatches == {b \in DOMAIN task : task[b].pc = "failed"}

\* 0-based index of the concurrency window of batch b
WindowIndex(b) == (b - 1) \div concurrency

RECURSIVE ItemsOfBatches(_, _)
\* the records returned for batches lo..hi, by batch, then page, then item
ItemsOfBatches(lo, hi) ==
  IF lo > hi THEN <<>> ELSE task[lo].allItems \o ItemsOfBatches(lo + 1, hi)

\* C1: during a run with concurrency >= 1 the number of batch calls that have
\* started and not yet returned or thrown never exceeds `concurrency`.
C1_InFlightAtMostConcurrency ==
  runPc # "idle" => Cardinality(InFlight) <= concurrency

\* a full window of two calls in flight while a third batch waits
C1_Witness ==
  /\ runPc = "running"
  /\ concurrency = 2
  /\ Cardinality(InFlight) = 2
  /\ \E b \in DOMAIN task : task[b].pc = "idle"

\* C2: batches run in consecutive windows of `concurrency` batches: a batch is
\* dispatched only when every batch of every earlier window has completed, and
\* the run-level accumulators hold the results of completed windows only
\* (those before offset i), never a result of the window still running.
C2_WindowBarrier ==
  runPc # "idle" =>
    /\ \A b \in DOMAIN task :
         task[b].pc # "idle" =>
           \A c \in DOMAIN task :
             WindowIndex(c) < WindowIndex(b) => task[c].pc = "done"
    /\ LET m == Min(i, Len(batches)) IN
       /\ \A c \in 1..m : task[c].pc = "done"
       /\ allIds = processBatchResults(ItemsOfBatches(1, m)).ids
       /\ allFoundOrderNumbers = foundNumbersOf(ItemsOfBatches(1, m))

\* the second window runs after a first window of two batches brought ids
C2_Witness ==
  /\ runPc = "running"
  /\ concurrency = 2
  /\ i = 2
  /\ allIds # <<>>
  /\ task[3].pc \in {"fetch", "json"}

\* C3: when the only failure is one batch that received an HTTP 401, the run
\* has rejected with UNAUTHORIZED_401 and has returned no result, whatever the
\* other batches of the window do.
C3_Single401Rejects ==
  \A b \in DOMAIN task :
    (task[b].status = 401 /\ FailedBatches = {b}) =>
      /\ runPc = "rejected"
      /\ runError = <<UNAUTHORIZED_401>>
      /\ result = <<>>

\* one batch of a window of two got a 401, its sibling has returned normally
C3_Witness ==
  /\ concurrency = 2
  /\ InFlight = {}
  /\ \E b, c \in DOMAIN task :
       /\ b # c
       /\ WindowIndex(b) = WindowIndex(c)
       /\ task[b].status = 401
       /\ FailedBatches = {b}
       /\ task[c].pc = "done"
       /\ task[c].allItems # <<>>

\* C4 (as claimed): whenever a dispatched batch has received an HTTP 401 the
\* run has been aborted with UNAUTHORIZED_401, whatever its siblings did and
\* in whatever order they completed.
C4_Any401RejectsUnauthorized ==
  \A b \in DOMAIN task :
    task[b].status = 401 =>
      runPc = "rejected" /\ runError = <<UNAUTHORIZED_401>>

\* C5 (as claimed): a run in which batches failed, none of them with a 401,
\* does not reject.
C5_OtherFailuresDoNotReject ==
  (FailedBatches # {} /\ \A b \in DOMAIN task : task[b].status # 401) =>
    runPc # "rejected"

\* the records returned in the run, by batch, then page, then item
AllReturnedItems == ItemsOfBatches(1, Len(batches))

Tokens == {orderNumbers[k] : k \in 1..Len(orderNumbers)}

\* record it carries tok as its order_number
Echoes(it, tok) ==
  it.order_number # Undefined /\ StringOf(it.order_number) = tok

EchoedInBatch(tok, b) ==
  \E k \in 1..Len(task[b].allItems) : Echoes(task[b].allItems[k], tok)

Echoed(tok) == \E b \in DOMAIN task : EchoedInBatch(tok, b)

\* some returned record echoing tok has a finite numeric id
Contributed(tok) ==
  \E b \in DOMAIN task : \E k \in 1..Len(task[b].allItems) :
    Echoes(task[b].allItems[k], tok) /\ ToNumber(task[b].allItems[k].id).finite

Returned == runPc = "returned" /\ result # <<>>

NotFoundSet == {result[1].notFound[k] : k \in 1..Len(result[1].notFound)}

\* C6: notFound is global: a token echoed by a record of any batch's
\* response is not in notFound.
C6_GlobalNotFound ==
  Returned => \A tok \in Tokens : Echoed(tok) => tok \notin NotFoundSet

\* a token that its own batch did not find but another batch's response
\* echoes is left out of notFound, while another token is reported
C6_Witness ==
  /\ Returned
  /\ NotFoundSet # {}
  /\ \E tok \in Tokens : \E b, c \in DOMAIN task :
       /\ b # c
       /\ tok \in RequestedSet(batches[b])
       /\ ~EchoedInBatch(tok, b)
       /\ EchoedInBatch(tok, c)
       /\ tok \notin NotFoundSet

C8_NotFoundIsFilteredInput ==
  Returned =>
    result[1].notFound = SelectSeq(orderNumbers, LAMBDA tok : ~Echoed(tok))

\* of three tokens the middle one is echoed (as a number) and removed
C8_Witness ==
  /\ Returned
  /\ Len(orderNumbers) = 3
  /\ Echoed(orderNumbers[2])
  /\ result[1].notFound = <<orderNumbers[1], orderNumbers[3]>>

\* the finite ids of the returned records in logical order
ExtractedIds ==
  LET kept == SelectSeq(AllReturnedItems, LAMBDA it : ToNumber(it.id).finite)
  IN [k \in 1..Len(kept) |-> ToNumber(kept[k].id).n]

FirstPos(seq, x) == CHOOSE k \in 1..Len(seq) :
                      seq[k] = x /\ \A j \in 1..(k - 1) : seq[j] # x

\* C9: ids has no duplicate, holds exactly the ids extracted from the
\* returned records, and is ordered by first occurrence in the concatenation
\* of the records by batch index, page index and item index.
C9_IdsUniqueInLogicalOrder ==
  Returned =>
    LET ids == result[1].ids IN
    /\ \A p, q \in 1..Len(ids) : p # q => ids[p] # ids[q]
    /\ {ids[p] : p \in 1..Len(ids)}
         = {ExtractedIds[k] : k \in 1..Len(ExtractedIds)}
    /\ \A p, q \in 1..Len(ids) :
         p < q => FirstPos(ExtractedIds, ids[p]) < FirstPos(ExtractedIds, ids[q])

\* two batches brought ids, one id was returned more than once
C9_Witness ==
  /\ Returned
  /\ Len(result[1].ids) = 2
  /\ Len(ExtractedIds) > 2
  /\ \E b, c \in DOMAIN task :
       /\ b # c
       /\ processBatchResults(task[b].allItems).ids # <<>>
       /\ processBatchResults(task[c].allItems).ids # <<>>

\* C10: the result is a function of the input and of the responses per
\* (batch, page) only: it equals the reconciliation of the records taken in
\* logical order, whatever the order in which the batches of a window
\* completed.
C10_ResultIndependentOfCompletionOrder ==
  Returned =>
    result[1] = FinalResult(orderNumbers, ExtractedIds,
                            foundNumbersOf(AllReturnedItems))

\* two batches of one window completed in reverse order, with different ids
C10_Witness ==
  /\ Returned
  /\ \E p, q \in 1..Len(completionOrder) :
       LET b == completionOrder[q]
           c == completionOrder[p]
       IN /\ p < q
          /\ b < c
          /\ WindowIndex(b) = WindowIndex(c)
          /\ processBatchResults(task[b].allItems).ids = <<1>>
          /\ processBatchResults(task[c].allItems).ids = <<2>>

\* the page a body-read step of batch b appended to allItems
PageOfStep(b) ==
  SubSeq(task'[b].allItems, Len(task[b].allItems) + 1, Len(task'[b].allItems))

\* C11: after each successful page of a batch, with `first` the first total
\* the upstream reported for the batch (if any), the call stops if and only
\* if the page is empty, or first is known and the number of records
\* accumulated so far is >= first, or the page has fewer records than
\* min(batch length, 500); otherwise it keeps first and requests the next
\* page index.
C11_StopsIffEmptyOrTotalReachedOrShort ==
  [][\A b \in DOMAIN task : \A tot \in TotalValues :
       (/\ task[b].pc = "json"
        /\ task'[b].pc \in {"done", "fetch"}
        /\ JsonBody(b, [list |-> PageOfStep(b), total |-> tot])) =>
         LET list == PageOfStep(b)
             first == IF task[b].apiTotal # Undefined THEN task[b].apiTotal
                      ELSE tot
             accumulated == Len(task[b].allItems) + Len(list)
             stops == \/ Len(list) = 0
                      \/ first # Undefined /\ accumulated >= first.n
                      \/ Len(list) < Min(Len(batches[b]), 500)
         IN /\ stops <=> task'[b].pc = "done"
            /\ stops => task'[b].reqs = task[b].reqs
            /\ ~stops =>
                 /\ task'[b].pc = "fetch"
                 /\ task'[b].apiTotal = first
                 /\ Len(task'[b].reqs) = Len(task[b].reqs) + 1
                 /\ task'[b].reqs[Len(task'[b].reqs)].page
                      = task[b].reqs[Len(task[b].reqs)].page + 1
  ]_vars

\* a batch went on after two full pages because the total reported first, 3,
\* was not yet reached
C11_Witness ==
  \E b \in DOMAIN task :
    /\ task[b].pc = "fetch"
    /\ task[b].page = 2
    /\ task[b].apiTotal = Num(3)
    /\ task[b].totalCollected = 2

\* C12: while the upstream reports no total, every page read is appended
\* after the pages before it, a full page is followed by the request of the
\* next index, and a short non-empty page after k full pages ends the call:
\* it has then issued exactly k+1 requests, with page indices 0..k in this
\* order, each of size min(batch length, 500) and with the same comma-joined
\* token list, and it returns the records of the k+1 pages in page order.
C12_FullPagesThenShortPage ==
  [][\A b \in DOMAIN task :
       \A list \in SeqsUpTo(Items, Min(Len(batches[b]), 500)) :
         LET t == task[b]
             size == Min(Len(batches[b]), 500)
             k == Len(t.reqs) - 1
         IN (/\ t.pc = "json"
             /\ t.apiTotal = Undefined
             /\ Len(t.allItems) = k * size
             /\ Len(task'[b].allItems) = Len(t.allItems) + Len(list)
             /\ JsonBody(b, [list |-> list, total |-> Undefined])) =>
              /\ task'[b].allItems = t.allItems \o list
              /\ Len(list) = size =>
                   /\ task'[b].pc = "fetch"
                   /\ task'[b].reqs =
                        Append(t.reqs, [size |-> size, page |-> k + 1,
                                        search |-> Join(batches[b], <<",">>)])
              /\ (0 < Len(list) /\ Len(list) < size) =>
                   /\ task'[b].pc = "done"
                   /\ task'[b].reqs = t.reqs
                   /\ Len(t.reqs) = k + 1
                   /\ \A j \in 1..(k + 1) :
                        t.reqs[j] = [size |-> size, page |-> j - 1,
                                     search |-> Join(batches[b], <<",">>)]
  ]_vars

\* a batch of two tokens answered with two full pages and a page of one
\* record: three requests, five records returned
C12_Witness ==
  \E b \in DOMAIN task :
    /\ Len(batches[b]) = 2
    /\ task[b].pc = "done"
    /\ Len(task[b].reqs) = 3
    /\ Len(task[b].allItems) = 5

C14_TimeoutStopsNoOtherBatch ==
  \A b \in DOMAIN task :
    (task[b].aborted /\ \A c \in DOMAIN task : task[c].status # 401) =>
      \A c \in DOMAIN task \ {b} :
        task[c].pc = "idle" => runPc = "running"

\* C15: a batch call whose last page response had status 401 has failed with
\* UNAUTHORIZED_401, one whose last response had another status outside
\* 200..299 has failed with SEARCH_FAILED carrying that status; the failing
\* step issues no request and hands over no record, and a failed call never
\* changes again (no further page request).
C15_ErrorStatusFailsBatch ==
  /\ [](\A b \in DOMAIN task :
          (task[b].status # 0 /\ task[b].status \notin 200..299) =>
            /\ task[b].pc = "failed"
            /\ task[b].status = 401 => task[b].err.name = "UNAUTHORIZED_401"
            /\ task[b].status # 401 =>
                 /\ task[b].err.name = "SEARCH_FAILED"
                 /\ task[b].err.status = task[b].status
            /\ task[b].allItems = <<>>
            /\ result = <<>>)
  /\ [][\A b \in DOMAIN task :
          /\ task[b].pc = "failed" => task'[b] = task[b]
          /\ (task[b].pc = "fetch" /\ task'[b].pc = "failed") =>
               /\ task'[b].reqs = task[b].reqs
               /\ chunkResults' = chunkResults
               /\ allIds' = allIds
               /\ allFoundOrderNumbers' = allFoundOrderNumbers
     ]_vars

\* the second page of a batch was answered with a 500 after a first page
\* with records had been read
C15_Witness ==
  \E b \in DOMAIN task :
    /\ task[b].pc = "failed"
    /\ task[b].status = 500
    /\ task[b].err.status = 500
    /\ Len(task[b].reqs) = 2

\* the claim's reading of "parses as a finite number": a number, or a string
\* that holds a decimal number; not a missing, null, empty or other id
ParsesAsFiniteNumber(v) ==
  \/ v.t = "num"
  \/ /\ v.t = "str"
     /\ Trim(v.s) # <<>>
     /\ \A k \in 1..Len(Trim(v.s)) : IsDigit(Trim(v.s)[k])

\* C16 (as claimed): the ids a list of returned records contributes are the
\* numbers of the records whose id parses as a finite number, in order,
\* whatever order_number the records carry; records with a missing, null,
\* empty or non-numeric id contribute nothing.
C16_IdIffParsesAsFiniteNumber ==
  runPc = "processed" =>
    LET items == task[1].allItems
        kept == SelectSeq(items, LAMBDA it : ParsesAsFiniteNumber(it.id))
    IN chunkResults[1].ids =
         [k \in 1..Len(kept) |->
            IF kept[k].id.t = "num" THEN kept[k].id.n
            ELSE ParseDigits(Trim(kept[k].id.s), 0)]

RECURSIVE SplitOnLoop(_, _, _, _)
\* the pieces of rest between the occurrences of sep, after the pieces found
\* so far and the piece cur under way
SplitOnLoop(rest, sep, cur, pieces) ==
  IF rest = <<>> THEN Append(pieces, cur)
  ELSE IF Len(rest) >= Len(sep) /\ SubSeq(rest, 1, Len(sep)) = sep
       THEN SplitOnLoop(SubSeq(rest, Len(sep) + 1, Len(rest)), sep, <<>>,
                        Append(pieces, cur))
       ELSE SplitOnLoop(Tail(rest), sep, Append(cur, Head(rest)), pieces)

\* the pieces of an encoded id list: the empty string holds no piece (the
\* reading of its consumers: idsEncoded ? idsEncoded.split("%2C").length : 0)
PiecesOf(encoded) ==
  IF encoded = <<>> THEN <<>>
  ELSE SplitOnLoop(encoded, <<"%", "2", "C">>, <<>>, <<>>)

\* a piece read as an integer: an optional minus sign and decimal digits
ParseInteger(piece) ==
  LET neg == piece # <<>> /\ Head(piece) = "-"
      digits == IF neg THEN Tail(piece) ELSE piece
  IN IF digits # <<>> /\ \A k \in 1..Len(digits) : IsDigit(digits[k])
     THEN [ok |-> TRUE,
           n |-> IF neg THEN 0 - ParseDigits(digits, 0)
                 ELSE ParseDigits(digits, 0)]
     ELSE [ok |-> FALSE, n |-> 0]

Occurs(sub, s) ==
  \E k \in 1..(Len(s) - Len(sub) + 1) : SubSeq(s, k, k + Len(sub) - 1) = sub

\* the decimal string of an integer: digits after an optional minus sign,
\* no leading zero
IsDecimalString(piece) ==
  /\ ParseInteger(piece).ok
  /\ LET digits == IF Head(piece) = "-" THEN Tail(piece) ELSE piece
     IN digits = <<"0">> \/ Head(digits) # "0"

\* C18: in every result idsEncoded is, id after id, the decimal string of
\* the id, with %2C between two ids and nowhere else: as many pieces as ids,
\* no raw comma, no whitespace, no separator at the start or at the end, no
\* two separators in a row and no %252C; it is empty when there is no id.
C18_EncodedShape ==
  runPc = "returned" =>
    LET enc == result[1].idsEncoded
        ids == result[1].ids
        sepr == <<"%", "2", "C">>
        pieces == SplitOnLoop(enc, sepr, <<>>, <<>>)
    IN /\ ids = <<>> => enc = <<>>
       /\ ids # <<>> =>
            /\ Len(pieces) = Len(ids)
            /\ \A k \in 1..Len(ids) :
                 /\ IsDecimalString(pieces[k])
                 /\ ParseInteger(pieces[k]).n = ids[k]
       /\ ~Occurs(<<",">>, enc)
       /\ \A w \in Whitespace : ~Occurs(<<w>>, enc)
       /\ Len(enc) >= 3 =>
            /\ SubSeq(enc, 1, 3) # sepr
            /\ SubSeq(enc, Len(enc) - 2, Len(enc)) # sepr
       /\ ~Occurs(sepr \o sepr, enc)
       /\ ~Occurs(<<"%", "2", "5", "2", "C">>, enc)

\* the ids 12 and 305, whose digits 2 and the separator's 2 meet, encoded
\* with one separator
C18_Witness ==
  /\ runPc = "returned"
  /\ result[1].ids = <<12, 305>>
  /\ result[1].idsEncoded = <<"1", "2", "%", "2", "C", "3", "0", "5">>

IsTokenChar(c) == c # "," /\ c \notin Whitespace

\* positions at which a maximal run of token characters starts
RunStarts(input) ==
  {a \in 1..Len(input) :
     IsTokenChar(input[a]) /\ (a = 1 \/ ~IsTokenChar(input[a - 1]))}

\* the maximal run of token characters that starts at position a
RunAt(input, a) ==
  LET b == CHOOSE e \in a..Len(input) :
             /\ \A k \in a..e : IsTokenChar(input[k])
             /\ e = Len(input) \/ ~IsTokenChar(input[e + 1])
  IN SubSeq(input, a, b)

\* the run starts whose run does not occur at an earlier start
FirstRunStarts(input) ==
  {a \in RunStarts(input) :
     \A e \in RunStarts(input) : e < a => RunAt(input, e) # RunAt(input, a)}

RECURSIVE RunsInOrder(_, _)
\* the runs that start at the positions of S, by increasing position
RunsInOrder(input, S) ==
  IF S = {} THEN <<>>
  ELSE LET a == CHOOSE x \in S : \A y \in S : x <= y
       IN <<RunAt(input, a)>> \o RunsInOrder(input, S \ {a})

\* C19: normalizeOrderNumbers returns the maximal runs of characters that
\* are neither comma nor whitespace, character for character, in input
\* order, without the runs equal to an earlier run; no token is empty.
C19_TokensAreFirstMaximalRuns ==
  runPc = "normalized" =>
    /\ orderNumbers = RunsInOrder(rawInput, FirstRunStarts(rawInput))
    /\ \A k \in 1..Len(orderNumbers) : orderNumbers[k] # <<>>

\* "7 07 7": the token 07 is kept as written and is not the token 7, the
\* second 7 is dropped
C19_Witness ==
  /\ runPc = "normalized"
  /\ rawInput = <<"7", " ", "0", "7", " ", "7">>
  /\ orderNumbers = << <<"7">>, <<"0", "7">> >>

\* C20: normalization is idempotent: when the tokens normalizeOrderNumbers
\* returned are joined with a separator (comma, space, newline, or comma and
\* space) and normalized again, the same token sequence comes back.
C20_NormalizeIdempotent ==
  [][runPc' = "renormalized" =>
       /\ \E sep \in Separators : rawInput' = Join(orderNumbers, sep)
       /\ orderNumbers' = orderNumbers
  ]_vars

\* the three tokens of "7,0,07" joined with ", " and normalized again
C20_Witness ==
  /\ runPc = "renormalized"
  /\ rawInput = <<"7", ",", " ", "0", ",", " ", "0", "7">>
  /\ orderNumbers = << <<"7">>, <<"0">>, <<"0", "7">> >>

\* the raw input holds nothing but commas and whitespace
OnlySeparators(input) ==
  \A k \in 1..Len(input) : input[k] \in {",", " ", "\n", "\t"}

\* C21: a call of collectIdsPaged with an empty, whitespace-only or
\* separators-only raw input has returned the result with no ids, the empty
\* idsEncoded and no notFound, and no batch call was started and no request
\* issued.
C21_EmptyInputShortCircuits ==
  (runPc # "idle" /\ OnlySeparators(rawInput)) =>
    /\ runPc = "returned"
    /\ result = <<[ids |-> <<>>, idsEncoded |-> <<>>, notFound |-> <<>>]>>
    /\ batches = <<>>
    /\ \A b \in DOMAIN task : task[b].reqs = <<>>
    /\ task = <<>>
    /\ completionOrder = <<>>

\* the call for the input " ,\n" has returned
C21_Witness ==
  /\ runPc = "returned"
  /\ rawInput = <<" ", ",", "\n">>
  /\ result # <<>>
  /\ task = <<>>

RECURSIVE Flatten(_)
\* the concatenation of the sequences of seqs, in order
Flatten(seqs) == IF seqs = <<>> THEN <<>> ELSE Head(seqs) \o Flatten(Tail(seqs))

\* C22: the batches built from a non-empty token sequence with a batch size
\* >= 1 are contiguous chunks: no batch is empty, none has more than
\* batchSize tokens, every batch but the last has exactly batchSize tokens,
\* and the batches concatenated in order are the token sequence.
C22_BatchesAreContiguousChunks ==
  runPc = "batched" =>
    /\ batches # <<>>
    /\ \A b \in 1..Len(batches) :
         /\ batches[b] # <<>>
         /\ Len(batches[b]) <= batchSize
         /\ b < Len(batches) => Len(batches[b]) = batchSize
    /\ Flatten(batches) = orderNumbers

\* batchSize 2 on [a,b,c,d,e] gives [[a,b],[c,d],[e]]
C22_Witness ==
  /\ runPc = "batched"
  /\ batchSize = 2
  /\ orderNumbers = << <<"a">>, <<"b">>, <<"c">>, <<"d">>, <<"e">> >>
  /\ batches = << << <<"a">>, <<"b">> >>, << <<"c">>, <<"d">> >>,
                  << <<"e">> >> >>

\* C23: nothing is retried: no batch call has completed (returned or thrown)
\* more than once, a batch whose call has completed, also by a failure or
\* a timeout, is not in flight again, and the requests a batch has issued
\* have pairwise different page indices.
C23_NoRetry ==
  /\ \A p, q \in 1..Len(completionOrder) :
       p # q => completionOrder[p] # completionOrder[q]
  /\ \A b \in DOMAIN task :
       /\ task[b].pc \in {"done", "failed"}
            <=> \E p \in 1..Len(completionOrder) : completionOrder[p] = b
       /\ task[b].pc = "idle" <=> task[b].reqs = <<>>
       /\ \A p, q \in 1..Len(task[b].reqs) :
            p # q => task[b].reqs[p].page # task[b].reqs[q].page

\* one batch timed out on its second page, its sibling then received a 500:
\* three requests in all and nothing in flight
C23_Witness ==
  /\ InFlight = {}
  /\ \E b, c \in DOMAIN task :
       /\ task[b].aborted
       /\ Len(task[b].reqs) = 2
       /\ task[c].pc = "failed"
       /\ task[c].status = 500
       /\ Len(task[c].reqs) = 1
       /\ completionOrder = <<b, c>>

\* C24 (as claimed): a call of searchAndExtractIdsOnce with a non-empty
\* input sends its tokens as one batch and issues one request only, for
\* page 0.
C24_OnceIsSinglePage ==
  (runPc # "idle" /\ orderNumbers # <<>>) =>
    /\ Len(batches) = 1
    /\ batches[1] = orderNumbers
    /\ Len(task[1].reqs) = 1
    /\ task[1].reqs[1].page = 0

\* ------------------------------------------------------------------------
\* AuthProvider: login, fetchWBhToken, logout and the mount effect
\* ------------------------------------------------------------------------

\* id_token values of authenticate responses, wBh values of /api/auth/fargo
IdTokens == {<<"t", "1">>, <<"t", "2">>}

WBhTokens == {<<"w", "1">>}

\* what localStorage holds when the provider mounts: nothing, or items of
\* an earlier session
StoredAtStart ==
  {[k \in keys |-> IF k = "shipox_token" THEN <<"t", "0">> ELSE <<"w", "0">>] :
     keys \in SUBSET {"shipox_token", "w_bh_token"}}

\* localStorage.setItem(key, value)
setItem(ls, key, value) ==
  [k \in DOMAIN ls \cup {key} |-> IF k = key THEN value ELSE ls[k]]

\* localStorage.removeItem(key)
removeItem(ls, key) == [k \in DOMAIN ls \ {key} |-> ls[k]]

\* the test `if (v)` on a value of a JSON body or on getItem's string
Truthy(v) ==
  CASE v.t = "str" -> v.s # <<>>
    [] v.t = "num" -> v.n # 0
    [] OTHER -> FALSE

\* a fetch resolves with an ok response, with a response that is not ok, or
\* rejects
FetchOutcomes == {"ok", "notOk", "throws"}

\* await response.json() of authenticate: rejects, or a body whose
\* data?.id_token is absent, empty or a token
AuthJsonOutcomes ==
  {[throws |-> TRUE, id_token |-> Undefined]} \cup
  {[throws |-> FALSE, id_token |-> v] :
     v \in {Undefined, Str(<<>>)} \cup {Str(t) : t \in IdTokens}}

\* await response.json() of /api/auth/fargo: rejects, or a body with or
\* without wBh
WBhJsonOutcomes ==
  {[throws |-> TRUE, wBh |-> Undefined]} \cup
  {[throws |-> FALSE, wBh |-> v] :
     v \in {Undefined} \cup {Str(w) : w \in WBhTokens}}

\* a call of login suspended at its first await
NewLogin == [pc |-> "authFetch", idToken |-> <<>>, value |-> FALSE]

\* the provider is mounted and localStorage holds what an earlier session
\* left; no search is running
AuthInit ==
  /\ runPc = "idle"
  /\ rawInput = <<>>
  /\ batchSize = 0
  /\ concurrency = 0
  /\ orderNumbers = <<>>
  /\ batches = <<>>
  /\ i = 0
  /\ allIds = <<>>
  /\ allFoundOrderNumbers = <<>>
  /\ chunkResults = <<>>
  /\ task = <<>>
  /\ result = <<>>
  /\ runError = <<>>
  /\ completionOrder = <<>>
  /\ localStorage \in StoredAtStart
  /\ isAuthenticated = FALSE
  /\ logins = <<>>
  /\ lastFinished = "none"

\* useEffect(..., []): isAuthenticated is set when a shipox_token is stored
MountEffect ==
  /\ lastFinished = "none"
  /\ lastFinished' = "mount"
  /\ isAuthenticated' =
       ("shipox_token" \in DOMAIN localStorage
          /\ Truthy(Str(localStorage["shipox_token"])))
  /\ UNCHANGED <<localStorage, logins>>
  /\ UNCHANGED searchVars

\* login(username, password) is called and suspends at await fetch(...)
Login ==
  /\ lastFinished # "none"
  /\ Len(logins) < MaxLogins
  /\ logins' = Append(logins, NewLogin)
  /\ UNCHANGED <<localStorage, isAuthenticated, lastFinished>>
  /\ UNCHANGED searchVars

\* call l of login returns value
LoginReturns(l, value) ==
  /\ logins' = [logins EXCEPT ![l] = [@ EXCEPT !.pc = "done",
                                               !.value = value]]
  /\ lastFinished' = "login"

\* await fetch(authenticate) of call l: an ok response is read next, after
\* any other one or a rejection login returns false
AuthFetchResolves(l, outcome) ==
  /\ l \in DOMAIN logins
  /\ logins[l].pc = "authFetch"
  /\ IF outcome = "ok"
     THEN /\ logins' = [logins EXCEPT ![l].pc = "authJson"]
          /\ UNCHANGED lastFinished
     ELSE LoginReturns(l, FALSE)
  /\ UNCHANGED <<localStorage, isAuthenticated>>
  /\ UNCHANGED searchVars

\* await response.json() of call l: without id_token login returns false,
\* with one it is stored and fetchWBhToken suspends at its fetch
AuthJsonResolves(l, outcome) ==
  /\ l \in DOMAIN logins
  /\ logins[l].pc = "authJson"
  /\ IF outcome.throws \/ ~Truthy(outcome.id_token)
     THEN /\ LoginReturns(l, FALSE)
          /\ UNCHANGED localStorage
     ELSE /\ localStorage' =
               setItem(localStorage, "shipox_token", outcome.id_token.s)
          /\ logins' = [logins EXCEPT ![l].pc = "wbhFetch",
                                      ![l].idToken = outcome.id_token.s]
          /\ UNCHANGED lastFinished
  /\ UNCHANGED isAuthenticated
  /\ UNCHANGED searchVars

\* await fetch("/api/auth/fargo") of call l: an ok response is read next;
\* after a response that is not ok (warning) or a rejection (rethrown by
\* fetchWBhToken, caught by login) login sets isAuthenticated and returns
\* true
WBhFetchResolves(l, outcome) ==
  /\ l \in DOMAIN logins
  /\ logins[l].pc = "wbhFetch"
  /\ IF outcome = "ok"
     THEN /\ logins' = [logins EXCEPT ![l].pc = "wbhJson"]
          /\ UNCHANGED <<isAuthenticated, lastFinished>>
     ELSE /\ isAuthenticated' = TRUE
          /\ LoginReturns(l, TRUE)
  /\ UNCHANGED localStorage
  /\ UNCHANGED searchVars

\* await response.json() of fetchWBhToken in call l: data.wBh is stored when
\* there is one; then login sets isAuthenticated and returns true
WBhJsonResolves(l, outcome) ==
  /\ l \in DOMAIN logins
  /\ logins[l].pc = "wbhJson"
  /\ IF ~outcome.throws /\ Truthy(outcome.wBh)
     THEN localStorage' = setItem(localStorage, "w_bh_token", outcome.wBh.s)
     ELSE UNCHANGED localStorage
  /\ isAuthenticated' = TRUE
  /\ LoginReturns(l, TRUE)
  /\ UNCHANGED searchVars

\* logout()
Logout ==
  /\ lastFinished # "none"
  /\ isAuthenticated' = FALSE
  /\ localStorage' =
       removeItem(removeItem(localStorage, "shipox_token"), "w_bh_token")
  /\ lastFinished' = "logout"
  /\ UNCHANGED logins
  /\ UNCHANGED searchVars

AuthNext ==
  \/ MountEffect
  \/ Login
  \/ \E l \in DOMAIN logins, outcome \in FetchOutcomes :
       AuthFetchResolves(l, outcome)
  \/ \E l \in DOMAIN logins, outcome \in AuthJsonOutcomes :
       AuthJsonResolves(l, outcome)
  \/ \E l \in DOMAIN logins, outcome \in FetchOutcomes :
       WBhFetchResolves(l, outcome)
  \/ \E l \in DOMAIN logins, outcome \in WBhJsonOutcomes :
       WBhJsonResolves(l, outcome)
  \/ Logout

AuthSpec == AuthInit /\ [][AuthNext]_vars

RECURSIVE ParamPieces(_, _, _)
\* the ids of a raw ids parameter: what stands between its separators, a
\* separator being a raw comma, %2C or %252C
ParamPieces(rest, cur, pieces) ==
  IF rest = <<>> THEN Append(pieces, cur)
  ELSE IF Len(rest) >= 5 /\ SubSeq(rest, 1, 5) = <<"%", "2", "5", "2", "C">>
       THEN ParamPieces(SubSeq(rest, 6, Len(rest)), <<>>, Append(pieces, cur))
  ELSE IF Len(rest) >= 3 /\ SubSeq(rest, 1, 3) = <<"%", "2", "C">>
       THEN ParamPieces(SubSeq(rest, 4, Len(rest)), <<>>, Append(pieces, cur))
  ELSE IF Head(rest) = ","
       THEN ParamPieces(Tail(rest), <<>>, Append(pieces, cur))
  ELSE ParamPieces(Tail(rest), Append(cur, Head(rest)), pieces)

\* C25 (as claimed): for a parameter made of ids separated by any mix of
\* raw commas, %2C and %252C, normalizeIdsParam returns the ids with %2C
\* between them: no raw comma and no %252C is left, and a parameter that
\* uses %2C only is returned unchanged.
C25_OneEncodingOfCommas ==
  runPc = "idsNormalized" =>
    /\ result[1] = Join(ParamPieces(rawInput, <<>>, <<>>), <<"%", "2", "C">>)
    /\ ~Occurs(<<",">>, result[1])
    /\ ~Occurs(<<"%", "2", "5", "2", "C">>, result[1])

\* every returned record has a locations array and echoes an order number
\* that its own batch requested
EveryRecordEchoesItsBatch ==
  \A b \in DOMAIN task : \A k \in 1..Len(task[b].allItems) :
    LET it == task[b].allItems[k] IN
      /\ it.locations.t = "array"
      /\ it.order_number # Undefined
      /\ StringOf(it.order_number) \in RequestedSet(batches[b])

\* C26: when every returned record has a locations array and echoes an
\* order number requested in its own batch, the collectIdsPaged that filters
\* and reports notFound per batch returns the same ids, idsEncoded and
\* notFound as the one that reports notFound globally, for the same input,
\* options and upstream responses.
C26_VariantsAgree ==
  (Returned /\ EveryRecordEchoesItsBatch) =>
    result[1] =
      collectIdsPagedFiltered(batches,
                              [b \in 1..Len(batches) |-> task[b].allItems])

\* a run of several batches where one batch found its order and two tokens
\* of other batches are reported as not found
C26_Witness ==
  /\ Returned
  /\ EveryRecordEchoesItsBatch
  /\ Len(batches) >= 2
  /\ \E b \in DOMAIN task : task[b].allItems # <<>>
  /\ result[1].ids # <<>>
  /\ Len(result[1].notFound) >= 2

\* no call of login is suspended
NoLoginPending == \A l \in DOMAIN logins : logins[l].pc = "done"

\* C27 (as claimed): under every interleaving of login and logout,
\* whenever isAuthenticated is true a shipox_token is stored, and after a
\* logout that is the last operation to finish neither shipox_token nor
\* w_bh_token is stored.
C27_AuthenticatedHasToken ==
  /\ isAuthenticated => "shipox_token" \in DOMAIN localStorage
  /\ (lastFinished = "logout" /\ NoLoginPending) => DOMAIN localStorage = {}

====
